---- MODULE Spec2Model ----
(***************************************************************************)
(* Model of the batch extraction workflow of                               *)
(* src/langgraph_advanced_extractor.py: the LangGraph state graph built by *)
(* create_advanced_workflow and the WorkflowCoordinator node handlers that *)
(* drive it (initialize, load_products, create_folders, start_extraction,  *)
(* extract_parallel, process_retries, start_validation, save_summary).     *)
(*                                                                         *)
(* pc is the node of the graph that runs next.  extract_products_parallel  *)
(* and process_retry_queue are split at the points where the coordinator   *)
(* thread blocks on a worker (as_completed / the direct call), so that the *)
(* worker tasks of the thread pool are visible while they are in flight.   *)
(*                                                                         *)
(* Next to it: ExtractionRunner of src/streamlit_extractor_runner.py       *)
(* (RunnerSpec), and, each studied on its own (PureSpec), the confidence   *)
(* score, the validator, the folder name, one call of                      *)
(* extract_single_product and the single-product workflow of               *)
(* src/langgraph_fixed_extractor.py.                                       *)
(***************************************************************************)
EXTENDS Integers, Sequences, FiniteSets, TLC

\* ---------------------------------------------------------------- bounds
MaxProducts == 3
MaxParallel == 2
MaxNameLen == 3

\* ------------------------------------------------------ program constants
\* ProductData.max_retries: int = 3
ProductDataMaxRetries == 3

\* multiplier of _calculate_confidence_score
FullScore == 100

\* validate_extraction_result: a score below it, a time above it is an issue
ConfidenceThreshold == 50
SlowExtractionSeconds == 60

\* ProductState enum values
INITIALIZED == "initialized"
PRODUCT_LIST_LOADED == "product_list_loaded"
FOLDERS_CREATED == "folders_created"
EXTRACTION_STARTED == "extraction_started"
EXTRACTION_IN_PROGRESS == "extraction_in_progress"
EXTRACTION_COMPLETED == "extraction_completed"
VALIDATION_STARTED == "validation_started"
VALIDATION_COMPLETED == "validation_completed"
FAILED == "failed"
RETRYING == "retrying"

None == "None"

VARIABLES
    pc,                        \* node of the graph to run next
    current_state,             \* state["current_state"]
    error,                     \* state["error"]
    products,                  \* state["products"]: list of ProductData
    extraction_results,        \* state["extraction_results"]
    current_product_index,     \* state["current_product_index"]
    retry_queue,               \* state["retry_queue"]: indices of products
    metrics,                   \* state["metrics"]: WorkflowMetrics
    max_parallel_extractions,  \* state["max_parallel_extractions"]
    config,                    \* state["config"]
    use_gcs,                   \* state["use_gcs"]
    gcs_manager,               \* state["gcs_manager"]: TRUE when a GCSManager is held
    futures,                   \* future_to_product of the running batch
    retry_products,            \* local copy of the retry queue
    retry_pos,                 \* position of the retry loop in retry_products
    retry_running,             \* TRUE while the direct retry call executes
    attempts,                  \* history: calls of extract_single_product per product
    finished,                  \* history: calls that have ended, per product
    batches,                   \* history: the batches launched, in order
    gcs_init_failed,           \* history: GCSManager() raised in initialize
    load_failed,               \* history: no product list was obtained
    enqueued,                  \* history: products in the order they were enqueued for retry
    retried,                   \* history: products in the order their retry call started
    artifact_store,            \* the store of product_details.json: faulty or not, whose write failed
    summary,                   \* the summary save_summary builds, <<>> before
    site,                      \* what run_complete_workflow can find: the pages of the site
    fn,                        \* one application of a function studied on its own
    runner                     \* ExtractionRunner: is_running, its thread, a stop during the run

workflow_vars == <<pc, current_state, error, products, extraction_results,
          current_product_index, retry_queue, metrics,
          max_parallel_extractions, config, use_gcs, gcs_manager, futures,
          retry_products, retry_pos, retry_running, attempts, finished,
          batches, gcs_init_failed, load_failed, enqueued, retried,
          artifact_store, summary, site>>

vars == <<workflow_vars, fn, runner>>

\* ------------------------------------------------------------- helpers
Min(a, b) == IF a <= b THEN a ELSE b

\* ceil(n / b) for b >= 1
CeilDiv(n, b) == (n + b - 1) \div b

\* values of EXTRACTION_CONFIG["max_retries"]: no retries, and the value
\* gcs_config.py ships
ConfigMaxRetries == {0, 3}

\* ProductData(name=...) as created by the list agent: workflow fields at
\* their defaults
ProductData(n) == [name |-> n, retry_count |-> 0,
                   max_retries |-> ProductDataMaxRetries]

\* products.sort(key=lambda x: x.name).  The workflow only compares names
\* for equality, so a sorted list is taken up to renaming: names are
\* 1, 2, ... and each product has the name of its predecessor (a duplicate)
\* or the next one
IsSortedByName(s) ==
    /\ s[1] = 1
    /\ \A i \in 1..(Len(s) - 1) : s[i + 1] = s[i] \/ s[i + 1] = s[i] + 1

\* the product lists the list agent can return: non-empty, sorted by name
ProductLists ==
    UNION { { s \in [1..n -> 1..n] : IsSortedByName(s) } : n \in 1..MaxProducts }

\* WorkflowMetrics()
WorkflowMetrics == [total_products |-> 0, successful_extractions |-> 0,
                    failed_extractions |-> 0, retried_extractions |-> 0]

\* ---------------------------------------- confidence score and validator
\* truthiness of the fields _calculate_confidence_score reads from a payload;
\* key_attributes is absent, an empty dict, a non-empty dict, or a truthy
\* value that is not a dict
KeyAttributesKinds == {"absent", "empty_dict", "dict", "other"}

Payloads ==
    [title : BOOLEAN, sku : BOOLEAN, brand : BOOLEAN, supplier : BOOLEAN,
     description : BOOLEAN, key_attributes : KeyAttributesKinds,
     image_downloaded : BOOLEAN]

\* points are counted in halves: a key field is 1.0, the image bonus 0.5
field_points(present) == IF present THEN 2 ELSE 0

calculate_confidence_score_bonus_only(result) ==
    LET score == field_points(result.title) + field_points(result.sku)
                 + field_points(result.brand) + field_points(result.supplier)
                 + field_points(result.description)
                 + field_points(result.key_attributes = "dict")
                 + (IF result.image_downloaded THEN 1 ELSE 0)
        total_fields == 12
    IN  (score * FullScore) \div total_fields

\* _calculate_confidence_score, in whole percent (rounded down)
calculate_confidence_score(result) ==
    LET score == field_points(result.title) + field_points(result.sku)
                 + field_points(result.brand) + field_points(result.supplier)
                 + field_points(result.description)
                 + field_points(result.key_attributes = "dict")
                 + (IF result.image_downloaded THEN 1 ELSE 0)
        total_fields == 12 + (IF result.image_downloaded THEN 1 ELSE 0)
    IN  (score * FullScore) \div total_fields

\* what the validator reads of result.result: None, an empty dict, or a
\* non-empty dict whose title is truthy or not
ValidatedPayloads ==
    {[kind |-> "None", title |-> FALSE], [kind |-> "empty", title |-> FALSE],
     [kind |-> "dict", title |-> FALSE], [kind |-> "dict", title |-> TRUE]}

\* Optional[float]: <<>> is None, <<v>> a value
ConfidenceScores == {<<>>, <<0>>, <<16>>, <<49>>, <<50>>, <<100>>}
ExtractionTimes == {<<>>, <<0>>, <<60>>, <<61>>}

\* the ExtractionResult objects handed to the validator; error_message is
\* the list of the parts of the message, <<>> for None
ExtractionResults ==
    {[success |-> ok, result |-> p, confidence_score |-> c, extraction_time |-> t,
      validation_status |-> IF ok THEN "pending" ELSE "None",
      error_message |-> IF ok THEN <<>> ELSE <<"No details found">>] :
        ok \in BOOLEAN, p \in ValidatedPayloads,
        c \in ConfidenceScores, t \in ExtractionTimes}

truthy(payload) == payload.kind = "dict"

validation_issues_no_required(result) ==
    (IF ~truthy(result.result) THEN <<"No result data">> ELSE <<>>)
    \o (IF /\ result.confidence_score # <<>>
           /\ result.confidence_score[1] # 0
           /\ result.confidence_score[1] < ConfidenceThreshold
        THEN <<"Low confidence score">> ELSE <<>>)
    \o (IF /\ result.extraction_time # <<>>
           /\ result.extraction_time[1] # 0
           /\ result.extraction_time[1] > SlowExtractionSeconds
        THEN <<"Slow extraction time">> ELSE <<>>)

\* validation_issues of validate_extraction_result
validation_issues(result) ==
    (IF ~truthy(result.result) THEN <<"No result data">> ELSE <<>>)
    \o (IF /\ result.confidence_score # <<>>
           /\ result.confidence_score[1] # 0
           /\ result.confidence_score[1] < ConfidenceThreshold
        THEN <<"Low confidence score">> ELSE <<>>)
    \o (IF /\ result.extraction_time # <<>>
           /\ result.extraction_time[1] # 0
           /\ result.extraction_time[1] > SlowExtractionSeconds
        THEN <<"Slow extraction time">> ELSE <<>>)
    \o (IF truthy(result.result) /\ ~result.result.title
        THEN <<"Missing required field: title">> ELSE <<>>)

validate_extraction_result_appending(result) ==
    IF ~result.success
    THEN [result EXCEPT !.validation_status = "failed"]
    ELSE IF validation_issues(result) # <<>>
         THEN [result EXCEPT !.validation_status = "issues",
                             !.error_message = result.error_message \o validation_issues(result)]
         ELSE [result EXCEPT !.validation_status = "validated"]

validate_extraction_result(result) ==
    IF ~result.success
    THEN [result EXCEPT !.validation_status = "failed"]
    ELSE IF validation_issues(result) # <<>>
         THEN [result EXCEPT !.validation_status = "issues",
                             !.error_message = validation_issues(result)]
         ELSE [result EXCEPT !.validation_status = "validated"]

\* ------------------------------------------------------ extraction calls
\* what FixedSearchExtractor.run_complete_workflow hands back
WorkflowOutcomes == {"details", "none"}

\* a page with all six key fields and no image, extracted quickly
RichPage ==
    [result |-> [title |-> TRUE, sku |-> TRUE, brand |-> TRUE, supplier |-> TRUE,
                 description |-> TRUE, key_attributes |-> "dict",
                 image_downloaded |-> FALSE],
     extraction_time |-> <<1>>]

\* a page with nothing but a title, extracted slowly
PoorPage ==
    [result |-> [title |-> TRUE, sku |-> FALSE, brand |-> FALSE, supplier |-> FALSE,
                 description |-> FALSE, key_attributes |-> "absent",
                 image_downloaded |-> FALSE],
     extraction_time |-> <<61>>]

Pages == {RichPage, PoorPage}

\* str(e) of the exception open() / json.dump raises in local mode
WriteError == "write failed"

\* a call of extract_single_product ends with details written, with
\* details whose product_details.json could not be written (at most one
\* item of a run, and only on a faulty store), or without details
ExtractionOutcomes(store) ==
    WorkflowOutcomes
    \cup (IF store.faulty /\ store.put_failed = 0 THEN {"details_unsaved"} ELSE {})

\* the store after the call: the item whose write failed is remembered
store_after(store, i, outcome) ==
    IF outcome = "details_unsaved" THEN [store EXCEPT !.put_failed = i] ELSE store

\* ExtractionResult returned by extract_single_product: with a GCSManager
\* a refused upload is only not logged; without one the exception of the
\* local write is caught and turned into a failure result
\* error_message is the list of the parts of the message, <<>> for None;
\* page is what run_complete_workflow found when it found details
extract_single_product(product, outcome, gcs, page) ==
    IF outcome = "details" \/ (outcome = "details_unsaved" /\ gcs)
    THEN [product_name |-> product.name,
          success |-> TRUE,
          result |-> [kind |-> "dict", title |-> page.result.title],
          error_message |-> <<>>,
          extraction_time |-> page.extraction_time,
          retry_count |-> product.retry_count,
          confidence_score |-> <<calculate_confidence_score(page.result)>>,
          validation_status |-> "pending"]
    ELSE [product_name |-> product.name,
          success |-> FALSE,
          result |-> [kind |-> "None", title |-> FALSE],
          error_message |-> IF outcome = "none" THEN <<"No details found">>
                            ELSE <<WriteError>>,
          extraction_time |-> <<1>>,
          retry_count |-> product.retry_count,
          confidence_score |-> <<>>,
          validation_status |-> "None"]

\* placeholder held by a future whose task raised instead of returning
NoResult == [product_name |-> 0, success |-> FALSE]

\* initial_state of main(), before app.invoke
WorkflowInit ==
    /\ pc = "initialize"
    /\ current_state = INITIALIZED
    /\ error = None
    /\ products = <<>>
    /\ extraction_results = <<>>
    /\ current_product_index = 0
    /\ retry_queue = <<>>
    /\ metrics = WorkflowMetrics
    /\ max_parallel_extractions \in 1..MaxParallel
    /\ config \in [max_retries : ConfigMaxRetries]
    /\ use_gcs \in BOOLEAN
    /\ gcs_manager = FALSE
    /\ futures = <<>>
    /\ retry_products = <<>>
    /\ retry_pos = 0
    /\ retry_running = FALSE
    /\ attempts = <<>>
    /\ finished = <<>>
    /\ batches = <<>>
    /\ gcs_init_failed = FALSE
    /\ load_failed = FALSE
    /\ enqueued = <<>>
    /\ retried = <<>>
    /\ summary = <<>>

\* no function application under study
FnIdle == [stage |-> "idle"]

\* ExtractionRunner.__init__; main() run without a runner leaves it so
\* thread is the _run_extraction thread whose run is followed, others the
\* number of further such threads executing
RunnerReady == [is_running |-> FALSE, thread |-> "none", stopped |-> FALSE,
                others |-> 0]

\* every write of a product_details.json succeeds
SoundStore == [faulty |-> FALSE, put_failed |-> 0]

Init ==
    /\ WorkflowInit
    /\ artifact_store = SoundStore
    /\ site = {RichPage}
    /\ fn = FnIdle
    /\ runner = RunnerReady

\* ------------------------------------------------------------ the graph
\* the router with `>` in place of `>=`: the end of the list is never seen
should_continue_extraction_strict(idx, prods, rq) ==
    IF idx > Len(prods)
    THEN IF rq # <<>> THEN "retry" ELSE "validate"
    ELSE "continue"

\* the router asking for the retry queue before the end of the list
should_continue_extraction_eager(idx, prods, rq) ==
    IF rq # <<>>
    THEN "retry"
    ELSE IF idx >= Len(prods) THEN "validate" ELSE "continue"

\* the router without its retry branch
should_continue_extraction_no_retry(idx, prods, rq) ==
    IF idx >= Len(prods) THEN "validate" ELSE "continue"

\* should_continue_extraction: the router behind extract_parallel
should_continue_extraction(idx, prods, rq) ==
    IF idx >= Len(prods)
    THEN IF rq # <<>> THEN "retry" ELSE "validate"
    ELSE "continue"

\* add_conditional_edges("extract_parallel", ...): route -> node
ConditionalEdge(route) ==
    CASE route = "continue" -> "extract_parallel"
      [] route = "retry" -> "process_retries"
      [] route = "validate" -> "start_validation"

\* ------------------------------------------------------------ node: initialize
initialize_workflow ==
    /\ pc = "initialize"
    /\ IF use_gcs
       THEN \E ok \in BOOLEAN :
              IF ok
              THEN /\ gcs_manager' = TRUE
                   /\ current_state' = INITIALIZED
                   /\ UNCHANGED <<error, gcs_init_failed>>
              ELSE /\ error' = "GCS initialization failed"
                   /\ current_state' = FAILED
                   /\ gcs_init_failed' = TRUE
                   /\ UNCHANGED gcs_manager
       ELSE /\ gcs_manager' = FALSE
            /\ current_state' = INITIALIZED
            /\ UNCHANGED <<error, gcs_init_failed>>
    /\ pc' = "load_products"
    /\ UNCHANGED <<products, extraction_results, current_product_index,
                   retry_queue, metrics, max_parallel_extractions, config,
                   use_gcs, futures, retry_products, retry_pos, retry_running,
                   attempts, finished, batches, load_failed>>
    /\ UNCHANGED <<enqueued, retried>>
    /\ UNCHANGED <<fn>>
    /\ UNCHANGED <<runner>>
    /\ UNCHANGED <<artifact_store>>
    /\ UNCHANGED <<summary>>
    /\ UNCHANGED <<site>>

\* ------------------------------------------------------------ node: load_products
load_product_list ==
    /\ pc = "load_products"
    /\ \E names \in ProductLists \cup {<<>>} :
         IF names = <<>>
         THEN /\ error' = "No products found from iProcure!"
              /\ current_state' = FAILED
              /\ load_failed' = TRUE
              /\ UNCHANGED <<products, metrics, attempts, finished>>
         ELSE /\ products' = [i \in 1..Len(names) |-> ProductData(names[i])]
              /\ metrics' = [metrics EXCEPT !.total_products = Len(names)]
              /\ current_state' = PRODUCT_LIST_LOADED
              /\ attempts' = [i \in 1..Len(names) |-> 0]
              /\ finished' = [i \in 1..Len(names) |-> 0]
              /\ UNCHANGED <<error, load_failed>>
    /\ pc' = "create_folders"
    /\ UNCHANGED <<extraction_results, current_product_index, retry_queue,
                   max_parallel_extractions, config, use_gcs, gcs_manager,
                   futures, retry_products, retry_pos, retry_running, batches,
                   gcs_init_failed>>
    /\ UNCHANGED <<enqueued, retried>>
    /\ UNCHANGED <<fn>>
    /\ UNCHANGED <<runner>>
    /\ UNCHANGED <<artifact_store>>
    /\ UNCHANGED <<summary>>
    /\ UNCHANGED <<site>>

\* ------------------------------------------------------------ node: create_folders
create_folders ==
    /\ pc = "create_folders"
    /\ current_state' = FOLDERS_CREATED
    /\ pc' = "start_extraction"
    /\ UNCHANGED <<error, products, extraction_results, current_product_index,
                   retry_queue, metrics, max_parallel_extractions, config,
                   use_gcs, gcs_manager, futures, retry_products, retry_pos,
                   retry_running, attempts, finished, batches,
                   gcs_init_failed, load_failed>>
    /\ UNCHANGED <<enqueued, retried>>
    /\ UNCHANGED <<fn>>
    /\ UNCHANGED <<runner>>
    /\ UNCHANGED <<artifact_store>>
    /\ UNCHANGED <<summary>>
    /\ UNCHANGED <<site>>

\* ------------------------------------------------------------ node: start_extraction
start_extraction ==
    /\ pc = "start_extraction"
    /\ current_state' = EXTRACTION_STARTED
    /\ current_product_index' = 0
    /\ extraction_results' = <<>>
    /\ retry_queue' = <<>>
    /\ pc' = "extract_parallel"
    /\ UNCHANGED <<error, products, metrics, max_parallel_extractions, config,
                   use_gcs, gcs_manager, futures, retry_products, retry_pos,
                   retry_running, attempts, finished, batches,
                   gcs_init_failed, load_failed>>
    /\ UNCHANGED <<enqueued, retried>>
    /\ UNCHANGED <<fn>>
    /\ UNCHANGED <<runner>>
    /\ UNCHANGED <<artifact_store>>
    /\ UNCHANGED <<summary>>
    /\ UNCHANGED <<site>>

\* ------------------------------------------------------------ node: extract_parallel
\* the batch size without the min(): the last batch is not shortened
batch_size_unclipped(maxpar, n, idx) == maxpar

\* batch_size = min(max_parallel_extractions, len(products) - current_product_index)
batch_size(maxpar, n, idx) == Min(maxpar, n - idx)

\* products[current_product_index : current_product_index + batch_size], as
\* a set of (1-based) positions; a Python slice stops at the end of the list
batch_products(n, idx, size) == { i \in 1..n : idx < i /\ i <= idx + size }

\* a counter that takes every collected result for a success
count_result_as_success(m, result) ==
    [m EXCEPT !.successful_extractions = @ + 1]

\* the metrics after a result has been collected from its future
count_result(m, result) ==
    IF result.success
    THEN [m EXCEPT !.successful_extractions = @ + 1]
    ELSE [m EXCEPT !.failed_extractions = @ + 1]

\* `if product.retry_count < product.max_retries`
retries_remaining(product) == product.retry_count < product.max_retries

\* a pool that is left without waiting for its workers
batch_drained_no_wait(fs) == TRUE

\* the as_completed loop has handed over every future and the
\* `with ThreadPoolExecutor` block has joined its workers
batch_drained(fs) == \A i \in DOMAIN fs : fs[i].status = "collected"

\* extract_products_parallel when every product has been processed
extract_products_parallel_done ==
    /\ pc = "extract_parallel"
    /\ current_product_index >= Len(products)
    /\ current_state' = EXTRACTION_COMPLETED
    /\ pc' = ConditionalEdge(should_continue_extraction(current_product_index,
                                                        products, retry_queue))
    /\ UNCHANGED <<error, products, extraction_results, current_product_index,
                   retry_queue, metrics, max_parallel_extractions, config,
                   use_gcs, gcs_manager, futures, retry_products, retry_pos,
                   retry_running, attempts, finished, batches,
                   gcs_init_failed, load_failed>>
    /\ UNCHANGED <<enqueued, retried>>
    /\ UNCHANGED <<fn>>
    /\ UNCHANGED <<runner>>
    /\ UNCHANGED <<artifact_store>>
    /\ UNCHANGED <<summary>>
    /\ UNCHANGED <<site>>

\* extract_products_parallel: take the next batch and submit one task per
\* product to a pool of batch_size workers
extract_products_parallel_submit ==
    /\ pc = "extract_parallel"
    /\ current_product_index < Len(products)
    /\ LET size == batch_size(max_parallel_extractions, Len(products),
                              current_product_index)
           batch == batch_products(Len(products), current_product_index, size)
       IN /\ futures' = [i \in batch |-> [status |-> "running",
                                          raised |-> FALSE,
                                          result |-> NoResult]]
          /\ attempts' = [i \in DOMAIN attempts |->
                            IF i \in batch THEN attempts[i] + 1 ELSE attempts[i]]
          /\ batches' = Append(batches, [start |-> current_product_index,
                                         size |-> size,
                                         members |-> batch])
    /\ pc' = "batch_wait"
    /\ UNCHANGED <<current_state, error, products, extraction_results,
                   current_product_index, retry_queue, metrics,
                   max_parallel_extractions, config, use_gcs, gcs_manager,
                   retry_products, retry_pos, retry_running, finished,
                   gcs_init_failed, load_failed>>
    /\ UNCHANGED <<enqueued, retried>>
    /\ UNCHANGED <<fn>>
    /\ UNCHANGED <<runner>>
    /\ UNCHANGED <<artifact_store>>
    /\ UNCHANGED <<summary>>
    /\ UNCHANGED <<site>>

\* a worker of the pool: extract_single_product returns its ExtractionResult
task_returns(i) ==
    /\ i \in DOMAIN futures
    /\ futures[i].status = "running"
    /\ \E outcome \in ExtractionOutcomes(artifact_store), page \in site :
         /\ futures' = [futures EXCEPT ![i] =
                           [status |-> "done", raised |-> FALSE,
                            result |-> extract_single_product(products[i], outcome,
                                                              gcs_manager, page)]]
         /\ artifact_store' = store_after(artifact_store, i, outcome)
    /\ finished' = [finished EXCEPT ![i] = @ + 1]
    /\ UNCHANGED <<pc, current_state, error, products, extraction_results,
                   current_product_index, retry_queue, metrics,
                   max_parallel_extractions, config, use_gcs, gcs_manager,
                   retry_products, retry_pos, retry_running, attempts, batches,
                   gcs_init_failed, load_failed>>
    /\ UNCHANGED <<enqueued, retried>>
    /\ UNCHANGED <<fn>>
    /\ UNCHANGED <<runner>>
    /\ UNCHANGED <<summary>>
    /\ UNCHANGED <<site>>

\* a worker of the pool: the task ends in an exception, which the future
\* keeps until future.result() re-raises it
task_raises(i) ==
    /\ i \in DOMAIN futures
    /\ futures[i].status = "running"
    /\ futures' = [futures EXCEPT ![i] =
                      [status |-> "done", raised |-> TRUE, result |-> NoResult]]
    /\ finished' = [finished EXCEPT ![i] = @ + 1]
    /\ UNCHANGED <<pc, current_state, error, products, extraction_results,
                   current_product_index, retry_queue, metrics,
                   max_parallel_extractions, config, use_gcs, gcs_manager,
                   retry_products, retry_pos, retry_running, attempts, batches,
                   gcs_init_failed, load_failed>>
    /\ UNCHANGED <<enqueued, retried>>
    /\ UNCHANGED <<fn>>
    /\ UNCHANGED <<runner>>
    /\ UNCHANGED <<artifact_store>>
    /\ UNCHANGED <<summary>>
    /\ UNCHANGED <<site>>

\* one iteration of `for future in as_completed(future_to_product)`
extract_products_parallel_collect(i) ==
    /\ pc = "batch_wait"
    /\ i \in DOMAIN futures
    /\ futures[i].status = "done"
    /\ futures' = [futures EXCEPT ![i].status = "collected"]
    /\ IF futures[i].raised
       THEN \* except Exception: only the failure counter moves
            /\ metrics' = [metrics EXCEPT !.failed_extractions = @ + 1]
            /\ UNCHANGED <<extraction_results, products, retry_queue>>
       ELSE LET result == futures[i].result IN
            /\ extraction_results' = Append(extraction_results, result)
            /\ metrics' = count_result(metrics, result)
            /\ IF ~result.success /\ retries_remaining(products[i])
               THEN /\ products' = [products EXCEPT ![i].retry_count = @ + 1]
                    /\ retry_queue' = Append(retry_queue, i)
               ELSE UNCHANGED <<products, retry_queue>>
    /\ enqueued' = IF retry_queue' # retry_queue THEN Append(enqueued, i)
                    ELSE enqueued
    /\ UNCHANGED retried
    /\ UNCHANGED <<pc, current_state, error, current_product_index,
                   max_parallel_extractions, config, use_gcs, gcs_manager,
                   retry_products, retry_pos, retry_running, attempts, finished,
                   batches, gcs_init_failed, load_failed>>
    /\ UNCHANGED <<fn>>
    /\ UNCHANGED <<runner>>
    /\ UNCHANGED <<artifact_store>>
    /\ UNCHANGED <<summary>>
    /\ UNCHANGED <<site>>

\* extract_products_parallel after the pool has been joined: advance the
\* index, then the router picks the next node
extract_products_parallel_join ==
    /\ pc = "batch_wait"
    /\ batch_drained(futures)
    /\ LET size == batch_size(max_parallel_extractions, Len(products),
                              current_product_index)
       IN /\ current_product_index' = current_product_index + size
          /\ pc' = ConditionalEdge(should_continue_extraction(
                                       current_product_index + size,
                                       products, retry_queue))
    /\ current_state' = EXTRACTION_IN_PROGRESS
    /\ futures' = <<>>
    /\ UNCHANGED <<error, products, extraction_results, retry_queue, metrics,
                   max_parallel_extractions, config, use_gcs, gcs_manager,
                   retry_products, retry_pos, retry_running, attempts, finished,
                   batches, gcs_init_failed, load_failed>>
    /\ UNCHANGED <<enqueued, retried>>
    /\ UNCHANGED <<fn>>
    /\ UNCHANGED <<runner>>
    /\ UNCHANGED <<artifact_store>>
    /\ UNCHANGED <<summary>>
    /\ UNCHANGED <<site>>

\* ------------------------------------------------------------ node: process_retries
\* position of the first result whose product_name is name, 0 when none:
\* the `for i, existing_result in enumerate(...)` loop with its break
first_result_of(results, name) ==
    IF \E k \in 1..Len(results) : results[k].product_name = name
    THEN CHOOSE k \in 1..Len(results) :
           /\ results[k].product_name = name
           /\ \A j \in 1..(k - 1) : results[j].product_name # name
    ELSE 0

\* a retry whose result is put at the end of the list
replace_result_appended(results, k, result) == Append(results, result)

\* state["extraction_results"][i] = result at the match, nothing without one
replace_result(results, k, result) ==
    IF k = 0 THEN results ELSE [results EXCEPT ![k] = result]

\* a loop that walks retry_products from its end
next_retry_from_end(rp, pos) == rp[Len(rp) + 1 - pos]

\* `for product in retry_products`: the product of the pos-th iteration
next_retry(rp, pos) == rp[pos]

\* a loop that starts the next call without waiting for the running one
retry_call_ready_no_wait(running) == TRUE

\* extract_single_product is called directly on the coordinator thread:
\* the next iteration starts only after the running call has come back
retry_call_ready(running) == ~running

\* process_retry_queue up to its first call of extract_single_product
process_retry_queue_begin ==
    /\ pc = "process_retries"
    /\ IF retry_queue = <<>>
       THEN /\ pc' = "start_validation"
            /\ UNCHANGED <<current_state, retry_products, retry_queue, retry_pos>>
       ELSE /\ current_state' = RETRYING
            /\ retry_products' = retry_queue
            /\ retry_queue' = <<>>
            /\ retry_pos' = 1
            /\ pc' = "retry_loop"
    /\ UNCHANGED <<error, products, extraction_results, current_product_index,
                   metrics, max_parallel_extractions, config, use_gcs,
                   gcs_manager, futures, retry_running, attempts, finished,
                   batches, gcs_init_failed, load_failed>>
    /\ UNCHANGED <<enqueued, retried>>
    /\ UNCHANGED <<fn>>
    /\ UNCHANGED <<runner>>
    /\ UNCHANGED <<artifact_store>>
    /\ UNCHANGED <<summary>>
    /\ UNCHANGED <<site>>

\* the coordinator thread enters extract_single_product for the next
\* product of retry_products
retry_call ==
    /\ pc = "retry_loop"
    /\ retry_call_ready(retry_running)
    /\ retry_pos <= Len(retry_products)
    /\ retry_running' = TRUE
    /\ attempts' = [attempts EXCEPT ![next_retry(retry_products, retry_pos)] = @ + 1]
    /\ retried' = Append(retried, next_retry(retry_products, retry_pos))
    /\ UNCHANGED enqueued
    /\ UNCHANGED <<pc, current_state, error, products, extraction_results,
                   current_product_index, retry_queue, metrics,
                   max_parallel_extractions, config, use_gcs, gcs_manager,
                   futures, retry_products, retry_pos, finished, batches,
                   gcs_init_failed, load_failed>>
    /\ UNCHANGED <<fn>>
    /\ UNCHANGED <<runner>>
    /\ UNCHANGED <<artifact_store>>
    /\ UNCHANGED <<summary>>
    /\ UNCHANGED <<site>>

\* the call returns: replace the stored result, count it, move on; after
\* the last product the node returns and the edge leads to start_validation
retry_return ==
    /\ pc = "retry_loop"
    /\ retry_running
    /\ \E outcome \in ExtractionOutcomes(artifact_store), page \in site :
         LET i == next_retry(retry_products, retry_pos)
             result == extract_single_product(products[i], outcome, gcs_manager, page)
             k == first_result_of(extraction_results, products[i].name)
         IN /\ artifact_store' = store_after(artifact_store, i, outcome)
            /\ extraction_results' = replace_result(extraction_results, k, result)
            /\ metrics' =
                  IF result.success
                  THEN [metrics EXCEPT !.successful_extractions = @ + 1,
                                       !.retried_extractions = @ + 1]
                  ELSE [metrics EXCEPT !.failed_extractions = @ + 1]
            /\ finished' = [finished EXCEPT ![i] = @ + 1]
    /\ retry_running' = FALSE
    /\ retry_pos' = retry_pos + 1
    /\ pc' = IF retry_pos + 1 > Len(retry_products)
             THEN "start_validation" ELSE "retry_loop"
    /\ UNCHANGED <<current_state, error, products, current_product_index,
                   retry_queue, max_parallel_extractions, config, use_gcs,
                   gcs_manager, futures, retry_products, attempts, batches,
                   gcs_init_failed, load_failed>>
    /\ UNCHANGED <<enqueued, retried>>
    /\ UNCHANGED <<fn>>
    /\ UNCHANGED <<runner>>
    /\ UNCHANGED <<summary>>
    /\ UNCHANGED <<site>>

\* the call raises: nothing in process_retry_queue catches it, the
\* exception leaves app.invoke and the run is abandoned
retry_raises ==
    /\ pc = "retry_loop"
    /\ retry_running
    /\ retry_running' = FALSE
    /\ finished' = [finished EXCEPT ![next_retry(retry_products, retry_pos)] = @ + 1]
    /\ pc' = "aborted"
    /\ UNCHANGED <<current_state, error, products, extraction_results,
                   current_product_index, retry_queue, metrics,
                   max_parallel_extractions, config, use_gcs, gcs_manager,
                   futures, retry_products, retry_pos, attempts, batches,
                   gcs_init_failed, load_failed>>
    /\ UNCHANGED <<enqueued, retried>>
    /\ UNCHANGED <<fn>>
    /\ UNCHANGED <<runner>>
    /\ UNCHANGED <<artifact_store>>
    /\ UNCHANGED <<summary>>
    /\ UNCHANGED <<site>>

\* ------------------------------------------------------------ node: start_validation
\* a pass that leaves the failure results as they are
validate_results_successful_only(results) ==
    [k \in DOMAIN results |->
        IF results[k].success THEN validate_extraction_result(results[k])
        ELSE results[k]]

\* the loop of start_validation over state["extraction_results"]
validate_results(results) ==
    [k \in DOMAIN results |-> validate_extraction_result(results[k])]

start_validation ==
    /\ pc = "start_validation"
    /\ extraction_results' = validate_results(extraction_results)
    /\ current_state' = VALIDATION_COMPLETED
    /\ pc' = "save_summary"
    /\ UNCHANGED <<error, products, current_product_index,
                   retry_queue, metrics, max_parallel_extractions, config,
                   use_gcs, gcs_manager, futures, retry_products, retry_pos,
                   retry_running, attempts, finished, batches,
                   gcs_init_failed, load_failed>>
    /\ UNCHANGED <<enqueued, retried>>
    /\ UNCHANGED <<fn>>
    /\ UNCHANGED <<runner>>
    /\ UNCHANGED <<artifact_store>>
    /\ UNCHANGED <<summary>>
    /\ UNCHANGED <<site>>

\* ------------------------------------------------------------ node: save_summary
\* result.validation_status or "unknown"
status_or_unknown(result) ==
    IF result.validation_status = "None" THEN "unknown" ELSE result.validation_status

\* _get_validation_summary: the number of results per status that occurs
get_validation_summary(results) ==
    [s \in { status_or_unknown(results[k]) : k \in DOMAIN results } |->
        Cardinality({ k \in DOMAIN results : status_or_unknown(results[k]) = s })]

\* the metrics as save_summary completes and reports them; success_rate
\* in whole percent (rounded down), 0 as long as it was never computed
final_metrics(m) ==
    [total_products |-> m.total_products,
     successful_extractions |-> m.successful_extractions,
     failed_extractions |-> m.failed_extractions,
     retried_extractions |-> m.retried_extractions,
     success_rate |-> IF m.total_products > 0
                      THEN (m.successful_extractions * 100) \div m.total_products
                      ELSE 0]

save_summary ==
    /\ pc = "save_summary"
    /\ summary' = [extraction_summary |-> final_metrics(metrics),
                   detailed_results |-> extraction_results,
                   validation_summary |-> get_validation_summary(extraction_results)]
    /\ pc' = "END"
    /\ UNCHANGED <<current_state, error, products, extraction_results,
                   current_product_index, retry_queue, metrics,
                   max_parallel_extractions, config, use_gcs, gcs_manager,
                   futures, retry_products, retry_pos, retry_running, attempts,
                   finished, batches, gcs_init_failed, load_failed>>
    /\ UNCHANGED <<enqueued, retried>>
    /\ UNCHANGED <<fn>>
    /\ UNCHANGED <<runner>>
    /\ UNCHANGED <<artifact_store>>
    /\ UNCHANGED <<site>>

\* ------------------------------------------------------------ specification
Next ==
    \/ initialize_workflow
    \/ load_product_list
    \/ create_folders
    \/ start_extraction
    \/ extract_products_parallel_done
    \/ extract_products_parallel_submit
    \/ \E i \in DOMAIN futures : task_returns(i)
    \/ \E i \in DOMAIN futures : task_raises(i)
    \/ \E i \in DOMAIN futures : extract_products_parallel_collect(i)
    \/ extract_products_parallel_join
    \/ process_retry_queue_begin
    \/ retry_call
    \/ retry_return
    \/ retry_raises
    \/ start_validation
    \/ save_summary

Spec == Init /\ [][Next]_vars

\* the coordinator thread and the pool workers keep running: every node
\* and every extraction call that can take its next step does so
FairSpec == Spec /\ WF_vars(Next)

\* a run over a store that refuses one write
PersistInit ==
    /\ WorkflowInit
    /\ config.max_retries = ProductDataMaxRetries
    /\ artifact_store = [faulty |-> TRUE, put_failed |-> 0]
    /\ site = {RichPage}
    /\ fn = FnIdle
    /\ runner = RunnerReady

PersistSpec == PersistInit /\ [][Next]_vars

\* a run over a site that serves rich and poor pages, in the deployed
\* configuration
ValidInit ==
    /\ WorkflowInit
    /\ use_gcs
    /\ config.max_retries = ProductDataMaxRetries
    /\ artifact_store = SoundStore
    /\ site = Pages
    /\ fn = FnIdle
    /\ runner = RunnerReady

ValidSpec == ValidInit /\ [][Next]_vars

\* ------------------------------------------------------------ scoring and validation functions
\* the characters of a product name, one per class: alphanumeric, space,
\* hyphen, underscore, anything else
NameChars == {"a", " ", "-", "_", "/"}

\* product names of up to MaxNameLen characters
ProductNames == UNION { [1..n -> NameChars] : n \in 0..MaxNameLen }

\* c.isalnum() or c in (' ', '-', '_')
kept_in_folder_name(c) == c = "a" \/ c \in {" ", "-", "_"}

RECURSIVE rstrip(_)
\* str.rstrip(): trailing whitespace removed
rstrip(s) ==
    IF s # <<>> /\ s[Len(s)] = " " THEN rstrip(SubSeq(s, 1, Len(s) - 1)) ELSE s

\* folder_name of create_product_folders; extract_single_product builds
\* its folder_path from the same expression
folder_name(name) == rstrip(SelectSeq(name, kept_in_folder_name))

\* ---- the single-product workflow of langgraph_fixed_extractor.py
\* ExtractionState as run_workflow builds it; product_url and product_data
\* are kept as present (truthy) or not, error_message as None or a message
initial_state ==
    [status |-> "started", current_step |-> "initialized",
     error_message |-> None, product_url |-> FALSE, product_data |-> FALSE,
     extraction_success |-> FALSE, workflow_complete |-> FALSE]

\* the except branch shared by the four agents
agent_failed(state, step) ==
    [state EXCEPT !.status = "error", !.error_message = "message",
                  !.current_step = step]

SearchOutcomes == {"results", "error in results", "raised"}

\* SearchAgent.search_products
search_products(state, o) ==
    IF o = "results"
    THEN [state EXCEPT !.status = "search_completed",
                       !.current_step = "search_success"]
    ELSE agent_failed(state, "search_failed")

NavigationOutcomes == {"product url", "basic info", "nothing", "raised"}

\* ProductNavigationAgent.find_and_navigate_product
find_and_navigate_product(state, o) ==
    CASE o = "product url" ->
           [state EXCEPT !.product_url = TRUE,
                         !.status = "navigation_completed",
                         !.current_step = "product_found"]
      [] o = "basic info" ->
           [state EXCEPT !.product_data = TRUE,
                         !.status = "extraction_completed",
                         !.current_step = "basic_extraction",
                         !.extraction_success = TRUE]
      [] OTHER -> agent_failed(state, "navigation_failed")

DetailOutcomes == {"product data", "nothing", "raised"}

\* an extraction that only moves current_step when it finds nothing
extract_product_details_silent(state, o) ==
    IF ~state.product_url THEN state
    ELSE IF o = "product data"
         THEN [state EXCEPT !.product_data = TRUE,
                            !.status = "extraction_completed",
                            !.current_step = "detailed_extraction",
                            !.extraction_success = TRUE]
         ELSE [state EXCEPT !.current_step = "extraction_failed"]

\* ProductExtractionAgent.extract_product_details
extract_product_details(state, o) ==
    IF ~state.product_url THEN state
    ELSE IF o = "product data"
         THEN [state EXCEPT !.product_data = TRUE,
                            !.status = "extraction_completed",
                            !.current_step = "detailed_extraction",
                            !.extraction_success = TRUE]
         ELSE agent_failed(state, "extraction_failed")

SavingOutcomes == {"saved", "raised"}

\* DataSavingAgent.save_extracted_data
save_extracted_data(state, o) ==
    IF ~state.product_data THEN state
    ELSE IF o = "saved"
         THEN [state EXCEPT !.status = "completed",
                            !.current_step = "data_saved",
                            !.workflow_complete = TRUE]
         ELSE agent_failed(state, "save_failed")

\* should_continue of _create_workflow
should_continue(state) ==
    IF state.status = "error" THEN "END"
    ELSE IF state.current_step = "search_success" THEN "navigate"
    ELSE IF state.current_step = "product_found" THEN "extract"
    ELSE IF state.current_step \in {"basic_extraction", "detailed_extraction"}
         THEN "save"
    ELSE "END"

\* how FixedSearchExtractor(...) ends: webdriver.Chrome fails for every
\* option set (no browser, the constructor raises), the browser starts
\* and _test_connectivity raises, or the extractor is handed back
ConstructorOutcomes == {"no_driver", "no_connectivity", "ready"}

\* how the rest of the try block ends: details found and saved, no details,
\* or an exception (in the extraction or while saving the artifact)
BodyOutcomes == {"details", "no_details", "raised"}

\* the inputs of one application: a payload to score, a result to validate,
\* a product name to turn into a folder name, or a call of
\* extract_single_product at its entry (extractor = None)
FnInputs ==
    {[stage |-> "payload", result |-> p] : p \in Payloads}
    \cup {[stage |-> "unvalidated", before |-> r] : r \in ExtractionResults}
    \cup {[stage |-> "name", name |-> n] : n \in ProductNames}
    \cup {[stage |-> "call", extractor |-> FALSE, browser |-> "none", path |-> "none"]}
    \cup {[stage |-> "workflow", node |-> "search", state |-> initial_state,
            save_input |-> "not run"]}

PureInit ==
    /\ WorkflowInit
    /\ artifact_store = SoundStore
    /\ site = {RichPage}
    /\ max_parallel_extractions = 1
    /\ config.max_retries = ProductDataMaxRetries
    /\ ~use_gcs
    /\ fn \in FnInputs
    /\ runner = RunnerReady

apply_calculate_confidence_score ==
    /\ fn.stage = "payload"
    /\ fn' = [stage |-> "scored", result |-> fn.result,
              confidence_score |-> calculate_confidence_score(fn.result)]
    /\ UNCHANGED <<workflow_vars, runner>>

apply_validate_extraction_result ==
    /\ fn.stage = "unvalidated"
    /\ fn' = [stage |-> "validated_once", before |-> fn.before,
              once |-> validate_extraction_result(fn.before)]
    /\ UNCHANGED <<workflow_vars, runner>>

\* the validator is handed the object it returned
reapply_validate_extraction_result ==
    /\ fn.stage = "validated_once"
    /\ fn' = [stage |-> "validated_twice", before |-> fn.before, once |-> fn.once,
              twice |-> validate_extraction_result(fn.once)]
    /\ UNCHANGED <<workflow_vars, runner>>

apply_folder_name ==
    /\ fn.stage = "name"
    /\ fn' = [stage |-> "folder_named", name |-> fn.name,
              folder_name |-> folder_name(fn.name)]
    /\ UNCHANGED <<workflow_vars, runner>>

\* extract_single_product: extractor = FixedSearchExtractor(...)
extract_single_product_construct ==
    /\ fn.stage = "call"
    /\ \E c \in ConstructorOutcomes :
         fn' = CASE c = "no_driver" ->
                      [fn EXCEPT !.stage = "call_except", !.path = c]
                 [] c = "no_connectivity" ->
                      [fn EXCEPT !.stage = "call_except", !.path = c,
                                 !.browser = "open"]
                 [] c = "ready" ->
                      [fn EXCEPT !.stage = "call_try", !.extractor = TRUE,
                                 !.browser = "open"]
    /\ UNCHANGED <<workflow_vars, runner>>

\* the try block after the constructor, up to its return statements
extract_single_product_body ==
    /\ fn.stage = "call_try"
    /\ \E b \in BodyOutcomes :
         fn' = [fn EXCEPT !.stage = IF b = "raised" THEN "call_except"
                                   ELSE "call_finally",
                          !.path = b]
    /\ UNCHANGED <<workflow_vars, runner>>

\* except Exception: the failure result is built
extract_single_product_except ==
    /\ fn.stage = "call_except"
    /\ fn' = [fn EXCEPT !.stage = "call_finally"]
    /\ UNCHANGED <<workflow_vars, runner>>

\* finally: `if extractor: extractor.close()`, then the call returns
extract_single_product_finally ==
    /\ fn.stage = "call_finally"
    /\ fn' = [fn EXCEPT !.stage = "call_returned",
                        !.browser = IF fn.extractor /\ fn.browser = "open"
                                    THEN "closed" ELSE fn.browser]
    /\ UNCHANGED <<workflow_vars, runner>>

\* node "search" and the conditional edge behind it
node_search ==
    /\ fn.stage = "workflow" /\ fn.node = "search"
    /\ \E o \in SearchOutcomes :
         LET s == search_products(fn.state, o)
         IN fn' = [fn EXCEPT !.state = s, !.node = should_continue(s)]
    /\ UNCHANGED <<workflow_vars, runner>>

\* node "navigate" and the conditional edge behind it
node_navigate ==
    /\ fn.stage = "workflow" /\ fn.node = "navigate"
    /\ \E o \in NavigationOutcomes :
         LET s == find_and_navigate_product(fn.state, o)
         IN fn' = [fn EXCEPT !.state = s, !.node = should_continue(s)]
    /\ UNCHANGED <<workflow_vars, runner>>

\* node "extract" and the conditional edge behind it
node_extract ==
    /\ fn.stage = "workflow" /\ fn.node = "extract"
    /\ \E o \in DetailOutcomes :
         LET s == extract_product_details(fn.state, o)
         IN fn' = [fn EXCEPT !.state = s, !.node = should_continue(s)]
    /\ UNCHANGED <<workflow_vars, runner>>

\* node "save"; its edge is `lambda _: END`.  save_input remembers
\* whether product_data was present when the node was entered
node_save ==
    /\ fn.stage = "workflow" /\ fn.node = "save"
    /\ \E o \in SavingOutcomes :
         fn' = [fn EXCEPT !.state = save_extracted_data(fn.state, o),
                          !.node = "END",
                          !.save_input = IF fn.state.product_data THEN "present"
                                         ELSE "absent"]
    /\ UNCHANGED <<workflow_vars, runner>>

PureNext ==
    \/ node_search
    \/ node_navigate
    \/ node_extract
    \/ node_save
    \/ extract_single_product_construct
    \/ extract_single_product_body
    \/ extract_single_product_except
    \/ extract_single_product_finally
    \/ apply_folder_name
    \/ apply_calculate_confidence_score
    \/ apply_validate_extraction_result
    \/ reapply_validate_extraction_result

PureSpec == PureInit /\ [][PureNext]_vars

\* ------------------------------------------------------------ ExtractionRunner
\* start_extraction: refused while is_running; else the daemon thread
\* running _run_extraction is started (one run is followed)
runner_start_extraction ==
    /\ ~runner.is_running
    /\ runner.thread = "none"
    /\ runner' = [runner EXCEPT !.is_running = TRUE, !.thread = "running"]
    /\ UNCHANGED <<workflow_vars, fn>>

\* start_extraction once more, after a stop or the end of the followed run:
\* is_running is false, so another thread is started (one at most is kept)
runner_start_extraction_again ==
    /\ ~runner.is_running
    /\ runner.thread # "none"
    /\ runner.others = 0
    /\ runner' = [runner EXCEPT !.is_running = TRUE, !.others = 1]
    /\ UNCHANGED <<workflow_vars, fn>>

\* the finally of a further thread
other_run_extraction_finally ==
    /\ runner.others > 0
    /\ runner' = [runner EXCEPT !.is_running = FALSE, !.others = @ - 1]
    /\ UNCHANGED <<workflow_vars, fn>>

\* _run_extraction calls main(): the nodes of the graph run in the thread
run_extraction_step ==
    /\ runner.thread = "running"
    /\ Next

\* _run_extraction: main() returned or raised; finally clears is_running
run_extraction_finally ==
    /\ runner.thread = "running"
    /\ pc \in {"END", "aborted"}
    /\ runner' = [runner EXCEPT !.is_running = FALSE, !.thread = "ended"]
    /\ UNCHANGED <<workflow_vars, fn>>

\* stop_extraction while the thread runs: self.process is None, so nothing
\* is terminated; only the flag and the status text change
runner_stop_extraction ==
    /\ runner.thread = "running"
    /\ ~runner.stopped
    /\ runner' = [runner EXCEPT !.is_running = FALSE, !.stopped = TRUE]
    /\ UNCHANGED <<workflow_vars, fn>>

RunnerNext ==
    \/ runner_start_extraction
    \/ runner_start_extraction_again
    \/ other_run_extraction_finally
    \/ run_extraction_step
    \/ run_extraction_finally
    \/ runner_stop_extraction

\* the deployed configuration: gcs_config.USE_GCS, EXTRACTION_CONFIG
RunnerInit ==
    /\ Init
    /\ use_gcs
    /\ config.max_retries = ProductDataMaxRetries

RunnerSpec == RunnerInit /\ [][RunnerNext]_vars

\* ------------------------------------------------------------ vocabulary of the properties
Terminal == pc = "END"

N == Len(products)

\* the batch loop has been left
BatchLoopLeft ==
    pc \in {"process_retries", "retry_loop", "start_validation",
            "save_summary", "END", "aborted"}

\* no two loaded products share a name
UniqueNames ==
    \A i, j \in 1..N : products[i].name = products[j].name => i = j

\* the positions of the results stored for product i
ResultsOf(i) ==
    { k \in 1..Len(extraction_results) :
        extraction_results[k].product_name = products[i].name }

\* calls of extract_single_product that have started and not yet ended
InFlight == { i \in 1..N : attempts[i] > finished[i] }

\* ------------------------------------------------------------ C1
\* C1: when the run is at END, successful_extractions + failed_extractions
\* equals total_products.
C1_CountsAddUp ==
    Terminal =>
        metrics.successful_extractions + metrics.failed_extractions
            = metrics.total_products

C3_RetriedUntilBudgetSpent ==
    (Terminal /\ UniqueNames) =>
        \A i \in 1..N : \A k \in ResultsOf(i) :
            LET r == extraction_results[k] IN
            IF r.success
            THEN attempts[i] = r.retry_count + 1
            ELSE \/ /\ attempts[i] = 1 + products[i].max_retries
                    /\ r.retry_count = products[i].max_retries
                 \/ /\ attempts[i] = 1 + config.max_retries
                    /\ r.retry_count = config.max_retries

\* ------------------------------------------------------------ C4
\* C4: every stored result has 0 <= retry_count <= config["max_retries"].
C4_RetryCountWithinConfig ==
    \A k \in 1..Len(extraction_results) :
        /\ 0 <= extraction_results[k].retry_count
        /\ extraction_results[k].retry_count <= config.max_retries

\* ------------------------------------------------------------ C5
\* C5: with config["max_retries"] = 0 the run never enters RETRYING and no
\* product is attempted more than once.
C5_NoRetryPassWhenZero ==
    config.max_retries = 0 =>
        /\ current_state # RETRYING
        /\ \A i \in 1..N : attempts[i] <= 1

\* ------------------------------------------------------------ C6
\* C6: batch k (counted from 0) starts at index k*B and has size
\* min(B, N - k*B); once the batch loop is left exactly ceil(N/B) batches
\* were launched and every product is in exactly one of them.
C6_BatchPartition ==
    LET B == max_parallel_extractions IN
    /\ \A k \in 1..Len(batches) :
         /\ batches[k].start = (k - 1) * B
         /\ batches[k].size = Min(B, N - (k - 1) * B)
         /\ batches[k].members =
               { i \in 1..N : (k - 1) * B < i /\ i <= (k - 1) * B + batches[k].size }
    /\ BatchLoopLeft =>
         /\ Len(batches) = CeilDiv(N, B)
         /\ \A i \in 1..N :
              Cardinality({ k \in 1..Len(batches) : i \in batches[k].members }) = 1

\* the loop was left after a full batch followed by a shorter last one
C6_Witness ==
    /\ Terminal
    /\ Len(batches) = 2
    /\ batches[1].size = 2
    /\ batches[2].size = 1

\* ------------------------------------------------------------ C7
\* C7: at most max_parallel_extractions extraction calls are in flight, and
\* once a batch has been launched the task of every product of every earlier
\* batch has ended.
C7_BoundedParallelism ==
    /\ Cardinality(InFlight) <= max_parallel_extractions
    /\ \A k \in 1..(Len(batches) - 1) :
         \A i \in batches[k].members : finished[i] >= 1

\* the first batch occupied the whole pool and has drained; the task of
\* the second batch is running
C7_Witness ==
    /\ Len(batches) = 2
    /\ max_parallel_extractions = 2
    /\ batches[1].size = 2
    /\ InFlight = batches[2].members
    /\ pc = "batch_wait"

\* ------------------------------------------------------------ C8
\* C8: if GCS initialization failed, no extraction is ever attempted and
\* the run ends in FAILED.
C8_GcsFailureStopsRun ==
    gcs_init_failed =>
        /\ \A i \in 1..N : attempts[i] = 0
        /\ Terminal => current_state = FAILED

\* ------------------------------------------------------------ C9
\* C9: if no product list was obtained, current_state stays FAILED with the
\* error recorded and no later node runs.
C9_LoadFailureStopsRun ==
    load_failed =>
        /\ current_state = FAILED
        /\ error # None
        /\ pc \notin {"start_extraction", "extract_parallel", "batch_wait",
                      "process_retries", "retry_loop", "start_validation",
                      "save_summary"}

\* ------------------------------------------------------------ C10
\* C10: every run in which each extraction call returns eventually reaches
\* END, and at END current_state is the completed state or FAILED with an
\* error recorded.
C10_Terminates ==
    /\ <>(Terminal \/ pc = "aborted")
    /\ [](Terminal =>
            \/ current_state = VALIDATION_COMPLETED
            \/ current_state = FAILED /\ error # None)

\* a run with several batches and a retry pass has reached END
C10_Witness ==
    /\ Terminal
    /\ Len(batches) >= 2
    /\ retry_products # <<>>
    /\ current_state = VALIDATION_COMPLETED

PersistenceFailureNoted(i) ==
    \E k \in 1..Len(summary.detailed_results) :
        /\ summary.detailed_results[k].product_name = products[i].name
        /\ summary.detailed_results[k].error_message = <<WriteError>>

\* C12: when the write of one item's product_details.json fails, the run
\* still ends in its completed state and the summary carries a
\* persistence-failure note for that item.
C12_PutFailureNoted ==
    (Terminal /\ artifact_store.put_failed # 0) =>
        /\ current_state = VALIDATION_COMPLETED
        /\ PersistenceFailureNoted(artifact_store.put_failed)

\* ------------------------------------------------------------ C13
\* C13: for every combination of success, payload, confidence_score and
\* extraction_time, validate_extraction_result sets validation_status to
\* "failed" exactly when success is false, and never sets "validated" on a
\* result whose payload has no non-empty title.
C13_FailedIffUnsuccessful ==
    fn.stage \in {"validated_once", "validated_twice"} =>
        /\ fn.once.validation_status = "failed" <=> ~fn.before.success
        /\ fn.once.validation_status = "validated" =>
               truthy(fn.before.result) /\ fn.before.result.title

\* a successful result with a full-confidence payload that has no title
\* came back with issues
C13_Witness ==
    /\ fn.stage = "validated_once"
    /\ fn.before.success
    /\ truthy(fn.before.result) /\ ~fn.before.result.title
    /\ fn.before.confidence_score = <<100>>
    /\ fn.before.extraction_time = <<0>>
    /\ fn.once.validation_status = "issues"

\* ------------------------------------------------------------ C14
\* C14: validating a second time a result the validator already validated,
\* payload unchanged, gives the same validation_status and the same
\* error_message as the first run.
C14_ValidatorIdempotent ==
    fn.stage = "validated_twice" =>
        /\ fn.twice.validation_status = fn.once.validation_status
        /\ fn.twice.error_message = fn.once.error_message

\* a result with two issues was validated twice
C14_Witness ==
    /\ fn.stage = "validated_twice"
    /\ fn.once.validation_status = "issues"
    /\ Len(fn.once.error_message) >= 2
    /\ fn.twice = fn.once

\* ------------------------------------------------------------ C15
AllSixPresent(result) ==
    /\ result.title /\ result.sku /\ result.brand
    /\ result.supplier /\ result.description
    /\ result.key_attributes = "dict"

NoneOfSixPresent(result) ==
    /\ ~result.title /\ ~result.sku /\ ~result.brand
    /\ ~result.supplier /\ ~result.description
    /\ result.key_attributes # "dict"

\* C15: for every payload the confidence score lies in [0, 100]; it is 100
\* when all six key fields are present and there is no image, and 0 when
\* none of the six is present and there is no image.
C15_ScoreInRange ==
    fn.stage = "scored" =>
        /\ 0 <= fn.confidence_score /\ fn.confidence_score <= FullScore
        /\ AllSixPresent(fn.result) /\ ~fn.result.image_downloaded
               => fn.confidence_score = FullScore
        /\ NoneOfSixPresent(fn.result) /\ ~fn.result.image_downloaded
               => fn.confidence_score = 0

\* a payload with all six fields and an image scored 100
C15_Witness ==
    /\ fn.stage = "scored"
    /\ AllSixPresent(fn.result) /\ fn.result.image_downloaded
    /\ fn.confidence_score = FullScore

\* ------------------------------------------------------------ C16
\* C16: after a user-initiated stop during a run the coordinator launches no
\* further batch (tasks already in flight may finish).
C16_NoBatchAfterStop ==
    [][runner.stopped => batches' = batches]_vars

\* ------------------------------------------------------------ C17
\* C17: no product gets a second attempt before the first attempt of every
\* product has ended, and current_state is RETRYING only after the last
\* batch, with a non-empty set of products to retry.
C17_NoRetryInsideBatchPass ==
    /\ \A i \in 1..N :
         attempts[i] >= 2 => \A j \in 1..N : finished[j] >= 1
    /\ current_state = RETRYING =>
         /\ current_product_index >= N
         /\ Len(batches) = CeilDiv(N, max_parallel_extractions)
         /\ retry_products # <<>>

\* a product of the first of two batches is being retried
C17_Witness ==
    /\ current_state = RETRYING
    /\ Len(batches) = 2
    /\ \E i \in batches[1].members : attempts[i] = 2

\* ------------------------------------------------------------ C18
\* position of a state in the order of the workflow; EXTRACTION_COMPLETED,
\* set when the batch loop finds nothing left, sits after the batch states
StateRank(st) ==
    CASE st = INITIALIZED -> 1
      [] st = PRODUCT_LIST_LOADED -> 2
      [] st = FOLDERS_CREATED -> 3
      [] st = EXTRACTION_STARTED -> 4
      [] st = EXTRACTION_IN_PROGRESS -> 5
      [] st = EXTRACTION_COMPLETED -> 6
      [] st = RETRYING -> 7
      [] st = VALIDATION_STARTED -> 8
      [] st = VALIDATION_COMPLETED -> 9
      [] st = FAILED -> 10

\* C18: current_state never moves to an earlier state of the order, and once
\* it is FAILED no step changes it.
C18_MonotonicStates ==
    [][/\ current_state = FAILED => current_state' = FAILED
       /\ current_state' # FAILED =>
            StateRank(current_state) <= StateRank(current_state')]_vars

\* ------------------------------------------------------------ C19
RECURSIVE CallsInFlight(_)
\* number of extract_single_product calls running, over products 1..n
CallsInFlight(n) ==
    IF n = 0 THEN 0 ELSE (attempts[n] - finished[n]) + CallsInFlight(n - 1)

\* C19: during the retry pass at most one extraction call is in flight, and
\* no pool task is left running.
C19_SequentialRetries ==
    pc = "retry_loop" =>
        /\ CallsInFlight(N) <= 1
        /\ CallsInFlight(N) = (IF retry_running THEN 1 ELSE 0)

\* the second product of the retry list is being retried, alone
C19_Witness ==
    /\ pc = "retry_loop"
    /\ retry_pos = 2
    /\ retry_running
    /\ CallsInFlight(N) = 1

\* ------------------------------------------------------------ C20
\* C20: the retry calls start in the order in which the products were
\* enqueued: the started retries are a prefix of the enqueue order.
C20_RetryOrderIsFifo ==
    /\ Len(retried) <= Len(enqueued)
    /\ \A k \in 1..Len(retried) : retried[k] = enqueued[k]

\* two different products were enqueued and both retries have started
C20_Witness ==
    /\ Len(retried) = 2
    /\ retried[1] # retried[2]
    /\ retried = enqueued

\* ------------------------------------------------------------ C21
\* the step in which the retry call of product i returns
RetryReturns(i) ==
    /\ pc = "retry_loop" /\ retry_running
    /\ pc' # "aborted" /\ ~retry_running'
    /\ i = next_retry(retry_products, retry_pos)

Issues(result) == { result.error_message[k] : k \in 1..Len(result.error_message) }

\* C22: every successful result whose confidence_score is below 50, a
\* score of 0 included, comes back from validate_extraction_result with
\* status "issues" and a low-confidence issue in its error_message.
C22_LowConfidenceFlagged ==
    (/\ fn.stage \in {"validated_once", "validated_twice"}
     /\ fn.before.success
     /\ fn.before.confidence_score # <<>>
     /\ fn.before.confidence_score[1] < ConfidenceThreshold) =>
        /\ fn.once.validation_status = "issues"
        /\ "Low confidence score" \in Issues(fn.once)

\* ------------------------------------------------------------ C23
\* the products put on the retry queue so far
Enqueued == { enqueued[k] : k \in 1..Len(enqueued) }

\* C23: a product whose artifact write failed on its first attempt is not
\* recorded as a failed extraction and is not put on the retry queue (so
\* it is not attempted again), whether a GCSManager is held or not.
C23_WriteFailureNotRetried ==
    \A i \in 1..N :
        (artifact_store.put_failed = i /\ attempts[i] = 1 /\ UniqueNames) =>
            /\ i \notin Enqueued
            /\ \A k \in ResultsOf(i) : extraction_results[k].success

\* ------------------------------------------------------------ C24
RECURSIVE SumOf(_, _)
\* the sum of the counts f[s] over the statuses s in S
SumOf(f, S) ==
    IF S = {} THEN 0
    ELSE LET s == CHOOSE x \in S : TRUE IN f[s] + SumOf(f, S \ {s})

\* C24: at the terminal state every result has been validated (its
\* validation_status is validated, issues or failed) and the counts of the
\* summary's validation-status histogram add up to the number of results.
C24_AllResultsValidated ==
    Terminal =>
        /\ \A k \in 1..Len(extraction_results) :
              extraction_results[k].validation_status \in {"validated", "issues", "failed"}
        /\ DOMAIN summary.validation_summary \subseteq {"validated", "issues", "failed"}
        /\ SumOf(summary.validation_summary, DOMAIN summary.validation_summary)
               = Len(extraction_results)

\* a run ended with results of all three statuses
C24_Witness ==
    /\ Terminal
    /\ Len(extraction_results) = 3
    /\ DOMAIN summary.validation_summary = {"validated", "issues", "failed"}

\* ------------------------------------------------------------ C25
\* C25: the folder name derived from a product name holds only
\* alphanumeric characters, hyphens and underscores: the characters kept
\* from the name are its alphanumerics, hyphens and underscores, and an
\* underscore stands for each space.
C25_FolderNameSanitised ==
    fn.stage = "folder_named" =>
        \A k \in 1..Len(fn.folder_name) : fn.folder_name[k] \in {"a", "-", "_"}

\* ------------------------------------------------------------ C26
\* C26: in every reachable state successful_extractions is at most
\* total_products, and the success_rate of the summary is at most 100.
C26_SuccessesWithinTotal ==
    /\ metrics.successful_extractions <= metrics.total_products
    /\ Terminal => summary.extraction_summary.success_rate <= 100

\* every product of a three-product run succeeded, one of them on its retry
C26_Witness ==
    /\ Terminal
    /\ metrics.total_products = 3
    /\ metrics.successful_extractions = 3
    /\ metrics.retried_extractions >= 1
    /\ summary.extraction_summary.success_rate = 100

\* ------------------------------------------------------------ C27
\* C27: no product is attempted more than 1 + max_retries times, and the
\* retry queue is empty from the moment the run enters validation.
C27_AttemptsBoundedQueueDrained ==
    /\ \A i \in 1..N : attempts[i] <= 1 + products[i].max_retries
    /\ pc \in {"start_validation", "save_summary", "END"} => retry_queue = <<>>

\* validation is entered after two products were queued and retried
C27_Witness ==
    /\ pc = "start_validation"
    /\ Len(retried) = 2
    /\ \E i \in 1..N : attempts[i] = 2
    /\ retry_queue = <<>>

\* ------------------------------------------------------------ C28
\* the number of _run_extraction threads executing
ThreadsExecuting == (IF runner.thread = "running" THEN 1 ELSE 0) + runner.others

\* C28: under every interleaving of start_extraction, stop_extraction and
\* the end of the background thread, at most one extraction thread is
\* executing and is_running is true whenever one is.
C28_OneThreadWhileRunning ==
    /\ ThreadsExecuting <= 1
    /\ ThreadsExecuting >= 1 => runner.is_running

\* ------------------------------------------------------------ C29
\* C29: when a call of extract_single_product has returned, the browser
\* it started has been closed, whichever way the call went.
C29_ExtractorClosed ==
    fn.stage = "call_returned" => fn.browser # "open"

\* ------------------------------------------------------------ C30
\* C30: the single-product workflow ends with status "completed" or
\* "error"; its save step is entered only with product_data present;
\* workflow_complete is true only with status "completed"; and status
\* "error" always comes with an error_message.
C30_WorkflowEndsCleanly ==
    fn.stage = "workflow" =>
        /\ fn.node = "END" => fn.state.status \in {"completed", "error"}
        /\ fn.save_input # "absent"
        /\ fn.state.workflow_complete => fn.state.status = "completed"
        /\ fn.state.status = "error" => fn.state.error_message # None

\* a run that found no product page, fell back to the search results and
\* saved them
C30_Witness ==
    /\ fn.stage = "workflow" /\ fn.node = "END"
    /\ fn.state.status = "completed"
    /\ fn.state.workflow_complete
    /\ ~fn.state.product_url
    /\ fn.save_input = "present"

====
